---- MODULE Spec2Model ----
(***************************************************************************)
(* Lifecycle and concurrency model of the libv2ray binding layer.          *)
(*                                                                         *)
(* The repository holds two alternative builds of package libv2ray:        *)
(*   "core" : CoreController        (StartLoop / StopLoop / StartSimple)   *)
(*   "vpn"  : V2RayPoint            (RunLoop / StopLoop / StartSimple...)  *)
(* Both define pingMap and the same package name, so one process links     *)
(* exactly one of them; `build` selects which one a behaviour runs.        *)
(*                                                                         *)
(* The wrapped engine (xray-core) is external: os.Open, LoadJSONConfig,    *)
(* core.New and Instance.Start may each succeed or fail, Instance.Close    *)
(* always returns.                                                         *)
(***************************************************************************)
EXTENDS Integers, Sequences, FiniteSets, TLC

\* ---------------------------------------------------------------- bounds
NumThreads == 2
MaxInst == 2
MaxFd == 2
MaxKey == 2

Threads == 1..NumThreads
InstIds == 1..MaxInst
Fds == 1..MaxFd
Keys == 1..MaxKey

Nil == 0
NoThread == 0

VARIABLES
  build,     \* which build of the package is linked
  x,         \* the CoreController struct
  v,         \* the V2RayPoint struct
  inst,      \* engine instances ever constructed by core.New
  tunFd,     \* process environment entry "xray.tun.fd"
  host,      \* calls received by the host's V2RayVPNServiceSupportsSet
  pingMap,   \* the process-wide sync.Map of keyed instances
  pc,        \* position of each host thread
  arg,       \* argument of the call a thread is executing
  ret,       \* value returned by the last call of a thread
  mine,      \* local variable `instance` / `val` of StartSimple / StopSimple
  observed,  \* last lock-free read of the IsRunning field by the host
  dialer     \* the registered dialer hook, the package's log and the dials

vars == <<build, x, v, inst, tunFd, host, pingMap, pc, arg, ret, mine, observed, dialer>>

\* ------------------------------------------------------------ the engine
\* core.Instance as seen by the binding: status is what New/Start made of
\* it, closes counts the calls of Close on it.
Unborn == [status |-> "unborn", closes |-> 0]

Constructed(i) == inst[i].status # "unborn"

Live(i) == Constructed(i) /\ inst[i].closes = 0

NumConstructed == Cardinality({i \in InstIds : Constructed(i)})

FreshInst == NumConstructed + 1

\* pc values of a Start that has not reached core.New yet
BeforeNew == {"StartLoop", "StartLoop_locked", "doStartLoop_open", "doStartLoop_load",
              "doStartLoop_new", "RunLoop", "RunLoop_locked", "pointloop_open",
              "pointloop_load", "pointloop_new", "StartSimple_open",
              "StartSimple_load", "StartSimple_new"}

\* a new Start may be issued only while an instance id is left for it
CanConstruct ==
  NumConstructed + Cardinality({t \in Threads : pc[t] \in BeforeNew}) < MaxInst

coreNew(i) == [inst EXCEPT ![i] = [status |-> "new", closes |-> 0]]

InstanceStart(i, ok) ==
  [inst EXCEPT ![i].status = IF ok THEN "started" ELSE "failed"]

InstanceClose(i) == [inst EXCEPT ![i].closes = @ + 1]

\* ------------------------------------------------------------------ Init
NewCoreController ==
  [IsRunning |-> FALSE, coreInstance |-> Nil, statsManager |-> Nil, coreMutex |-> NoThread]

NewV2RayPoint ==
  [IsRunning |-> FALSE, Vpoint |-> Nil, statsManager |-> Nil, v2rayOP |-> NoThread]

\* a socket the engine is not dialing with
NoConn == [pc |-> "idle", fd |-> 0, protect |-> "none", err |-> "none"]

\* registerDialerController as called by NewCoreController: when the engine's
\* RegisterDialerController returns an error the hook is not installed and
\* the error is logged
registerDialerController(ok) ==
  [hook |-> ok,
   log |-> IF ok THEN {} ELSE {"Failed to register dialer controller"},
   conn |-> [t \in Threads |-> NoConn]]

Init ==
  /\ dialer = registerDialerController(TRUE)
  /\ build \in {"core", "vpn"}
  /\ x = NewCoreController
  /\ v = NewV2RayPoint
  /\ inst = [i \in InstIds |-> Unborn]
  /\ tunFd = 0
  /\ host = <<>>
  /\ pingMap = [k \in Keys |-> Nil]
  /\ pc = [t \in Threads |-> "idle"]
  /\ arg = [t \in Threads |-> 0]
  /\ ret = [t \in Threads |-> "none"]
  /\ mine = [t \in Threads |-> Nil]
  /\ observed = [IsRunning |-> FALSE, engine |-> "none"]

\* a thread returns from its call; its parameter dies with the frame
Return(t, r) ==
  /\ pc' = [pc EXCEPT ![t] = "idle"]
  /\ ret' = [ret EXCEPT ![t] = r]
  /\ arg' = [arg EXCEPT ![t] = 0]

Goto(t, l) ==
  /\ pc' = [pc EXCEPT ![t] = l]
  /\ UNCHANGED <<ret, arg>>

\* ------------------------------------------------- CoreController (core)
\* host thread t calls x.StartLoop(fd)
StartLoop_call(t, fd) ==
  /\ build = "core"
  /\ pc[t] = "idle"
  /\ CanConstruct
  /\ pc' = [pc EXCEPT ![t] = "StartLoop"]
  /\ arg' = [arg EXCEPT ![t] = fd]
  /\ ret' = [ret EXCEPT ![t] = "none"]
  /\ UNCHANGED <<dialer, build, x, v, inst, tunFd, host, pingMap, mine, observed>>

\* StartLoop entered without waiting for coreMutex
StartLoop_lock_NoWait(t) ==
  /\ pc[t] = "StartLoop"
  /\ x' = [x EXCEPT !.coreMutex = t]
  /\ Goto(t, "StartLoop_locked")
  /\ UNCHANGED <<dialer, build, v, inst, tunFd, host, pingMap, mine, observed>>

\* x.coreMutex.Lock()
StartLoop_lock(t) ==
  /\ pc[t] = "StartLoop"
  /\ x.coreMutex = NoThread
  /\ x' = [x EXCEPT !.coreMutex = t]
  /\ Goto(t, "StartLoop_locked")
  /\ UNCHANGED <<dialer, build, v, inst, tunFd, host, pingMap, mine, observed>>

\* StartLoop without the `if x.IsRunning` early return
StartLoop_NoRunningCheck(t) ==
  /\ pc[t] = "StartLoop_locked"
  /\ tunFd' = arg[t]
  /\ x' = x
  /\ Goto(t, "doStartLoop_open")
  /\ UNCHANGED <<dialer, build, v, inst, host, pingMap, mine, observed>>

\* setEnvVariable(tunFdKey, ...); if x.IsRunning { return nil }; the
\* deferred Unlock runs with the return
StartLoop(t) ==
  /\ pc[t] = "StartLoop_locked"
  /\ tunFd' = arg[t]
  /\ IF x.IsRunning
       THEN /\ x' = [x EXCEPT !.coreMutex = NoThread]
            /\ Return(t, "nil")
       ELSE /\ x' = x
            /\ Goto(t, "doStartLoop_open")
  /\ UNCHANGED <<dialer, build, v, inst, host, pingMap, mine, observed>>

\* doStartLoop whose open failure returns with coreMutex still held
doStartLoop_open_NoUnlock(t) ==
  /\ pc[t] = "doStartLoop_open"
  /\ \E ok \in BOOLEAN :
       IF ok
         THEN /\ x' = x
              /\ Goto(t, "doStartLoop_load")
         ELSE /\ x' = x
              /\ Return(t, "config error: open")
  /\ UNCHANGED <<dialer, build, v, inst, tunFd, host, pingMap, mine, observed>>

\* os.Open(x.ConfigureFile)
doStartLoop_open(t) ==
  /\ pc[t] = "doStartLoop_open"
  /\ \E ok \in BOOLEAN :
       IF ok
         THEN /\ x' = x
              /\ Goto(t, "doStartLoop_load")
         ELSE /\ x' = [x EXCEPT !.coreMutex = NoThread]
              /\ Return(t, "config error: open")
  /\ UNCHANGED <<dialer, build, v, inst, tunFd, host, pingMap, mine, observed>>

\* coreserial.LoadJSONConfig(file)
doStartLoop_load(t) ==
  /\ pc[t] = "doStartLoop_load"
  /\ \E ok \in BOOLEAN :
       IF ok
         THEN /\ x' = x
              /\ Goto(t, "doStartLoop_new")
         ELSE /\ x' = [x EXCEPT !.coreMutex = NoThread]
              /\ Return(t, "config error: load")
  /\ UNCHANGED <<dialer, build, v, inst, tunFd, host, pingMap, mine, observed>>

\* x.coreInstance, err = core.New(config); x.statsManager = GetFeature(...)
\* core.New returns a nil instance together with an error.
doStartLoop_new(t) ==
  /\ pc[t] = "doStartLoop_new"
  /\ \E ok \in BOOLEAN :
       IF ok
         THEN /\ inst' = coreNew(FreshInst)
              /\ x' = [x EXCEPT !.coreInstance = FreshInst, !.statsManager = FreshInst]
              /\ Goto(t, "doStartLoop_run")
         ELSE /\ inst' = inst
              /\ x' = [x EXCEPT !.coreInstance = Nil, !.coreMutex = NoThread]
              /\ Return(t, "core init failed: new")
  /\ UNCHANGED <<dialer, build, v, tunFd, host, pingMap, mine, observed>>

\* x.IsRunning = true
doStartLoop_run(t) ==
  /\ pc[t] = "doStartLoop_run"
  /\ x' = [x EXCEPT !.IsRunning = TRUE]
  /\ Goto(t, "doStartLoop_start")
  /\ UNCHANGED <<dialer, build, v, inst, tunFd, host, pingMap, mine, observed>>

\* if err := x.coreInstance.Start(); err != nil { x.IsRunning = false; ... }
doStartLoop_start(t) ==
  /\ pc[t] = "doStartLoop_start"
  /\ \E ok \in BOOLEAN :
       /\ inst' = InstanceStart(x.coreInstance, ok)
       /\ IF ok
            THEN /\ x' = [x EXCEPT !.coreMutex = NoThread]
                 /\ Return(t, "nil")
            ELSE /\ x' = [x EXCEPT !.IsRunning = FALSE, !.coreMutex = NoThread]
                 /\ Return(t, "startup failed: start")
  /\ UNCHANGED <<dialer, build, v, tunFd, host, pingMap, mine, observed>>

\* host thread t calls x.StopLoop()
StopLoopCore_call(t) ==
  /\ build = "core"
  /\ pc[t] = "idle"
  /\ pc' = [pc EXCEPT ![t] = "StopLoopCore"]
  /\ ret' = [ret EXCEPT ![t] = "none"]
  /\ UNCHANGED <<dialer, build, x, v, inst, tunFd, host, pingMap, arg, mine, observed>>

\* x.coreMutex.Lock()
StopLoopCore_lock(t) ==
  /\ pc[t] = "StopLoopCore"
  /\ x.coreMutex = NoThread
  /\ x' = [x EXCEPT !.coreMutex = t]
  /\ Goto(t, "StopLoopCore_locked")
  /\ UNCHANGED <<dialer, build, v, inst, tunFd, host, pingMap, mine, observed>>

\* StopLoop calling doShutdown whatever x.IsRunning is
StopLoopCore_Always(t) ==
  /\ pc[t] = "StopLoopCore_locked"
  /\ x' = x
  /\ Goto(t, "doShutdown")
  /\ UNCHANGED <<dialer, build, v, inst, tunFd, host, pingMap, mine, observed>>

\* if x.IsRunning { x.doShutdown() }
StopLoopCore(t) ==
  /\ pc[t] = "StopLoopCore_locked"
  /\ IF x.IsRunning
       THEN /\ x' = x
            /\ Goto(t, "doShutdown")
       ELSE /\ x' = [x EXCEPT !.coreMutex = NoThread]
            /\ Return(t, "void")
  /\ UNCHANGED <<dialer, build, v, inst, tunFd, host, pingMap, mine, observed>>

\* doShutdown that closes the engine but keeps the reference and the flag
doShutdown_KeepRunning(t) ==
  /\ pc[t] = "doShutdown"
  /\ inst' = IF x.coreInstance # Nil THEN InstanceClose(x.coreInstance) ELSE inst
  /\ x' = [x EXCEPT !.statsManager = Nil, !.coreMutex = NoThread]
  /\ Return(t, "void")
  /\ UNCHANGED <<dialer, build, v, tunFd, host, pingMap, mine, observed>>

\* doShutdown, then StopLoop returns and unlocks
doShutdown(t) ==
  /\ pc[t] = "doShutdown"
  /\ inst' = IF x.coreInstance # Nil THEN InstanceClose(x.coreInstance) ELSE inst
  /\ x' = [x EXCEPT !.coreInstance = Nil, !.IsRunning = FALSE,
                    !.statsManager = Nil, !.coreMutex = NoThread]
  /\ Return(t, "void")
  /\ UNCHANGED <<dialer, build, v, tunFd, host, pingMap, mine, observed>>

\* ----------------------------------------------------- V2RayPoint (vpn)
\* host thread t calls v.RunLoop()
RunLoop_call(t) ==
  /\ build = "vpn"
  /\ pc[t] = "idle"
  /\ CanConstruct
  /\ pc' = [pc EXCEPT ![t] = "RunLoop"]
  /\ ret' = [ret EXCEPT ![t] = "none"]
  /\ UNCHANGED <<dialer, build, x, v, inst, tunFd, host, pingMap, arg, mine, observed>>

\* v.v2rayOP.Lock()
RunLoop_lock(t) ==
  /\ pc[t] = "RunLoop"
  /\ v.v2rayOP = NoThread
  /\ v' = [v EXCEPT !.v2rayOP = t]
  /\ Goto(t, "RunLoop_locked")
  /\ UNCHANGED <<dialer, build, x, inst, tunFd, host, pingMap, mine, observed>>

\* if !v.IsRunning { err = v.pointloop() }; return
RunLoop(t) ==
  /\ pc[t] = "RunLoop_locked"
  /\ IF v.IsRunning
       THEN /\ v' = [v EXCEPT !.v2rayOP = NoThread]
            /\ Return(t, "nil")
       ELSE /\ v' = v
            /\ Goto(t, "pointloop_open")
  /\ UNCHANGED <<dialer, build, x, inst, tunFd, host, pingMap, mine, observed>>

\* os.Open(v.ConfigureFile)
pointloop_open(t) ==
  /\ pc[t] = "pointloop_open"
  /\ \E ok \in BOOLEAN :
       IF ok
         THEN /\ v' = v
              /\ Goto(t, "pointloop_load")
         ELSE /\ v' = [v EXCEPT !.v2rayOP = NoThread]
              /\ Return(t, "open")
  /\ UNCHANGED <<dialer, build, x, inst, tunFd, host, pingMap, mine, observed>>

\* v2serial.LoadJSONConfig(file)
pointloop_load(t) ==
  /\ pc[t] = "pointloop_load"
  /\ \E ok \in BOOLEAN :
       IF ok
         THEN /\ v' = v
              /\ Goto(t, "pointloop_new")
         ELSE /\ v' = [v EXCEPT !.v2rayOP = NoThread]
              /\ Return(t, "load")
  /\ UNCHANGED <<dialer, build, x, inst, tunFd, host, pingMap, mine, observed>>

\* v.Vpoint, err = v2core.New(config); on error v.Vpoint = nil;
\* v.statsManager = v.Vpoint.GetFeature(...)
pointloop_new(t) ==
  /\ pc[t] = "pointloop_new"
  /\ \E ok \in BOOLEAN :
       IF ok
         THEN /\ inst' = coreNew(FreshInst)
              /\ v' = [v EXCEPT !.Vpoint = FreshInst, !.statsManager = FreshInst]
              /\ Goto(t, "pointloop_run")
         ELSE /\ inst' = inst
              /\ v' = [v EXCEPT !.Vpoint = Nil, !.v2rayOP = NoThread]
              /\ Return(t, "new")
  /\ UNCHANGED <<dialer, build, x, tunFd, host, pingMap, mine, observed>>

\* v.IsRunning = true
pointloop_run(t) ==
  /\ pc[t] = "pointloop_run"
  /\ v' = [v EXCEPT !.IsRunning = TRUE]
  /\ Goto(t, "pointloop_start")
  /\ UNCHANGED <<dialer, build, x, inst, tunFd, host, pingMap, mine, observed>>

\* if err := v.Vpoint.Start(); err != nil { v.IsRunning = false; return err }
pointloop_start(t) ==
  /\ pc[t] = "pointloop_start"
  /\ \E ok \in BOOLEAN :
       /\ inst' = InstanceStart(v.Vpoint, ok)
       /\ IF ok
            THEN /\ v' = v
                 /\ Goto(t, "pointloop_hooks")
            ELSE /\ v' = [v EXCEPT !.IsRunning = FALSE, !.v2rayOP = NoThread]
                 /\ Return(t, "start")
  /\ UNCHANGED <<dialer, build, x, tunFd, host, pingMap, mine, observed>>

\* v.SupportSet.Prepare(); Setup(""); OnEmitStatus(0, "Running"); return nil
pointloop_hooks(t) ==
  /\ pc[t] = "pointloop_hooks"
  /\ host' = host \o <<"Prepare", "Setup", "Running">>
  /\ v' = [v EXCEPT !.v2rayOP = NoThread]
  /\ Return(t, "nil")
  /\ UNCHANGED <<dialer, build, x, inst, tunFd, pingMap, mine, observed>>

\* host thread t calls v.StopLoop()
StopLoop_call(t) ==
  /\ build = "vpn"
  /\ pc[t] = "idle"
  /\ pc' = [pc EXCEPT ![t] = "StopLoop"]
  /\ ret' = [ret EXCEPT ![t] = "none"]
  /\ UNCHANGED <<dialer, build, x, v, inst, tunFd, host, pingMap, arg, mine, observed>>

\* v.v2rayOP.Lock()
StopLoop_lock(t) ==
  /\ pc[t] = "StopLoop"
  /\ v.v2rayOP = NoThread
  /\ v' = [v EXCEPT !.v2rayOP = t]
  /\ Goto(t, "StopLoop_locked")
  /\ UNCHANGED <<dialer, build, x, inst, tunFd, host, pingMap, mine, observed>>

\* StopLoop notifying "Closed" whatever v.IsRunning is
StopLoop_AlwaysEmit(t) ==
  /\ pc[t] = "StopLoop_locked"
  /\ v' = v
  /\ Goto(t, IF v.IsRunning THEN "shutdownInit" ELSE "StopLoop_emit")
  /\ UNCHANGED <<dialer, build, x, inst, tunFd, host, pingMap, mine, observed>>

\* if v.IsRunning { v.shutdownInit(); ... }
StopLoop(t) ==
  /\ pc[t] = "StopLoop_locked"
  /\ IF v.IsRunning
       THEN /\ v' = v
            /\ Goto(t, "shutdownInit")
       ELSE /\ v' = [v EXCEPT !.v2rayOP = NoThread]
            /\ Return(t, "void")
  /\ UNCHANGED <<dialer, build, x, inst, tunFd, host, pingMap, mine, observed>>

\* shutdownInit without `v.IsRunning = false`
shutdownInit_KeepRunning(t) ==
  /\ pc[t] = "shutdownInit"
  /\ IF v.Vpoint = Nil
       THEN /\ inst' = inst
            /\ v' = [v EXCEPT !.v2rayOP = NoThread]
            /\ Goto(t, "panic")
       ELSE /\ inst' = InstanceClose(v.Vpoint)
            /\ v' = [v EXCEPT !.Vpoint = Nil, !.statsManager = Nil]
            /\ Goto(t, "StopLoop_emit")
  /\ UNCHANGED <<dialer, build, x, tunFd, host, pingMap, mine, observed>>

\* v.IsRunning = false; v.Vpoint.Close(); v.Vpoint = nil; v.statsManager = nil
\* Close on a nil *Instance dereferences nil: the goroutine panics with the
\* lock released by the deferred Unlock.
shutdownInit(t) ==
  /\ pc[t] = "shutdownInit"
  /\ IF v.Vpoint = Nil
       THEN /\ inst' = inst
            /\ v' = [v EXCEPT !.IsRunning = FALSE, !.v2rayOP = NoThread]
            /\ Goto(t, "panic")
       ELSE /\ inst' = InstanceClose(v.Vpoint)
            /\ v' = [v EXCEPT !.IsRunning = FALSE, !.Vpoint = Nil, !.statsManager = Nil]
            /\ Goto(t, "StopLoop_emit")
  /\ UNCHANGED <<dialer, build, x, tunFd, host, pingMap, mine, observed>>

\* v.SupportSet.OnEmitStatus(0, "Closed"); return
StopLoop_emit(t) ==
  /\ pc[t] = "StopLoop_emit"
  /\ host' = Append(host, "Closed")
  /\ v' = [v EXCEPT !.v2rayOP = NoThread]
  /\ Return(t, "void")
  /\ UNCHANGED <<dialer, build, x, inst, tunFd, pingMap, mine, observed>>

NextVpn ==
  \E t \in Threads :
    \/ RunLoop_call(t)
    \/ RunLoop_lock(t)
    \/ RunLoop(t)
    \/ pointloop_open(t)
    \/ pointloop_load(t)
    \/ pointloop_new(t)
    \/ pointloop_run(t)
    \/ pointloop_start(t)
    \/ pointloop_hooks(t)
    \/ StopLoop_call(t)
    \/ StopLoop_lock(t)
    \/ StopLoop(t)
    \/ shutdownInit(t)
    \/ StopLoop_emit(t)

\* ------------------------------------------------------------ keyed mode
\* StartSimple / StopSimple of the core build and StartSimpleV2RayPoint /
\* StopSimpleV2RayPoint of the vpn build are the same statements on the same
\* pingMap; they touch no controller, so they are explored for one build.
InitSimple == Init /\ build = "core"

\* Store in place of LoadOrStore: the new value replaces a present one
LoadOrStore_Overwrite(m, key, val) ==
  [map |-> [m EXCEPT ![key] = val], loaded |-> m[key] # Nil]

\* LoadOrStore that keeps a present value but reports the key as absent
LoadOrStore_NeverLoaded(m, key, val) ==
  [map |-> IF m[key] # Nil THEN m ELSE [m EXCEPT ![key] = val], loaded |-> FALSE]

\* pingMap.LoadOrStore(key, instance): the stored value and whether the key
\* was already present
LoadOrStore(m, key, val) ==
  IF m[key] # Nil
    THEN [map |-> m, loaded |-> TRUE]
    ELSE [map |-> [m EXCEPT ![key] = val], loaded |-> FALSE]

\* LoadAndDelete that reports every key as present
LoadAndDelete_AlwaysLoaded(m, key) ==
  [map |-> [m EXCEPT ![key] = Nil], val |-> m[key], loaded |-> TRUE]

\* Load in place of LoadAndDelete: the mapping stays in the table
LoadAndDelete_LoadOnly(m, key) ==
  [map |-> m, val |-> m[key], loaded |-> m[key] # Nil]

\* pingMap.LoadAndDelete(key)
LoadAndDelete(m, key) ==
  [map |-> [m EXCEPT ![key] = Nil], val |-> m[key], loaded |-> m[key] # Nil]

\* host thread t calls StartSimple(configFile, key)
StartSimple_call(t, key) ==
  /\ pc[t] = "idle"
  /\ CanConstruct
  /\ pc' = [pc EXCEPT ![t] = "StartSimple_open"]
  /\ arg' = [arg EXCEPT ![t] = key]
  /\ ret' = [ret EXCEPT ![t] = "none"]
  /\ UNCHANGED <<dialer, build, x, v, inst, tunFd, host, pingMap, mine, observed>>

\* os.Open(configFile)
StartSimple_open(t) ==
  /\ pc[t] = "StartSimple_open"
  /\ \E ok \in BOOLEAN :
       IF ok THEN Goto(t, "StartSimple_load") ELSE Return(t, "open")
  /\ UNCHANGED <<dialer, build, x, v, inst, tunFd, host, pingMap, mine, observed>>

\* LoadJSONConfig(file)
StartSimple_load(t) ==
  /\ pc[t] = "StartSimple_load"
  /\ \E ok \in BOOLEAN :
       IF ok THEN Goto(t, "StartSimple_new") ELSE Return(t, "load")
  /\ UNCHANGED <<dialer, build, x, v, inst, tunFd, host, pingMap, mine, observed>>

\* instance, err := core.New(config)
StartSimple_new(t) ==
  /\ pc[t] = "StartSimple_new"
  /\ \E ok \in BOOLEAN :
       IF ok
         THEN /\ inst' = coreNew(FreshInst)
              /\ mine' = [mine EXCEPT ![t] = FreshInst]
              /\ Goto(t, "StartSimple_start")
         ELSE /\ inst' = inst
              /\ mine' = mine
              /\ Return(t, "new")
  /\ UNCHANGED <<dialer, build, x, v, tunFd, host, pingMap, observed>>

\* instance.Start(): the returned error is discarded
StartSimple_start(t) ==
  /\ pc[t] = "StartSimple_start"
  /\ \E ok \in BOOLEAN : inst' = InstanceStart(mine[t], ok)
  /\ Goto(t, "StartSimple_store")
  /\ UNCHANGED <<dialer, build, x, v, tunFd, host, pingMap, mine, observed>>

\* StartSimple that shuts the instance down when the key is taken
StartSimple_store_CloseRejected(t) ==
  /\ pc[t] = "StartSimple_store"
  /\ LET r == LoadOrStore(pingMap, arg[t], mine[t])
     IN  /\ pingMap' = r.map
         /\ inst' = IF r.loaded THEN InstanceClose(mine[t]) ELSE inst
         /\ Return(t, IF r.loaded THEN "point already exist" ELSE "nil")
  /\ mine' = [mine EXCEPT ![t] = Nil]
  /\ UNCHANGED <<dialer, build, x, v, tunFd, host, observed>>

\* _, loaded := pingMap.LoadOrStore(key, instance); the local `instance`
\* dies with the return
StartSimple_store(t) ==
  /\ pc[t] = "StartSimple_store"
  /\ LET r == LoadOrStore(pingMap, arg[t], mine[t])
     IN  /\ pingMap' = r.map
         /\ Return(t, IF r.loaded THEN "point already exist" ELSE "nil")
  /\ mine' = [mine EXCEPT ![t] = Nil]
  /\ UNCHANGED <<dialer, build, x, v, inst, tunFd, host, observed>>

\* host thread t calls StopSimple(key)
StopSimple_call(t, key) ==
  /\ pc[t] = "idle"
  /\ pc' = [pc EXCEPT ![t] = "StopSimple"]
  /\ arg' = [arg EXCEPT ![t] = key]
  /\ ret' = [ret EXCEPT ![t] = "none"]
  /\ UNCHANGED <<dialer, build, x, v, inst, tunFd, host, pingMap, mine, observed>>

\* val, loaded := pingMap.LoadAndDelete(key); if !loaded, return
StopSimple(t) ==
  /\ pc[t] = "StopSimple"
  /\ LET r == LoadAndDelete(pingMap, arg[t])
     IN  /\ pingMap' = r.map
         /\ IF r.loaded
              THEN /\ mine' = [mine EXCEPT ![t] = r.val]
                   /\ Goto(t, "StopSimple_close")
              ELSE /\ mine' = mine
                   /\ Return(t, "void")
  /\ UNCHANGED <<dialer, build, x, v, inst, tunFd, host, observed>>

\* instance.Close(); return
StopSimple_close(t) ==
  /\ pc[t] = "StopSimple_close"
  /\ inst' = InstanceClose(mine[t])
  /\ mine' = [mine EXCEPT ![t] = Nil]
  /\ Return(t, "void")
  /\ UNCHANGED <<dialer, build, x, v, tunFd, host, pingMap, observed>>

NextSimple ==
  \E t \in Threads :
    \/ \E key \in Keys : StartSimple_call(t, key)
    \/ StartSimple_open(t)
    \/ StartSimple_load(t)
    \/ StartSimple_new(t)
    \/ StartSimple_start(t)
    \/ StartSimple_store(t)
    \/ \E key \in Keys : StopSimple_call(t, key)
    \/ StopSimple(t)
    \/ StopSimple_close(t)

\* ------------------------------------------------- lock-free field reads
\* The controller's running flag and engine reference, whichever build
IsRunning == IF build = "core" THEN x.IsRunning ELSE v.IsRunning

Engine == IF build = "core" THEN x.coreInstance ELSE v.Vpoint

Stats == IF build = "core" THEN x.statsManager ELSE v.statsManager

Mutex == IF build = "core" THEN x.coreMutex ELSE v.v2rayOP

\* The host reads the exported IsRunning field; no lock is taken.  The read
\* records, next to the flag, what the engine behind it was at that moment.
ReadIsRunning ==
  /\ observed' = [IsRunning |-> IsRunning,
                  engine |-> IF IsRunning /\ Engine # Nil
                               THEN inst[Engine].status ELSE "none"]
  /\ UNCHANGED <<dialer, build, x, v, inst, tunFd, host, pingMap, pc, arg, ret, mine>>

NextCore ==
  \E t \in Threads :
    \/ \E fd \in Fds : StartLoop_call(t, fd)
    \/ StartLoop_lock(t)
    \/ StartLoop(t)
    \/ doStartLoop_open(t)
    \/ doStartLoop_load(t)
    \/ doStartLoop_new(t)
    \/ doStartLoop_run(t)
    \/ doStartLoop_start(t)
    \/ StopLoopCore_call(t)
    \/ StopLoopCore_lock(t)
    \/ StopLoopCore(t)
    \/ doShutdown(t)

Next == NextCore \/ NextVpn \/ ReadIsRunning

\* one controller, driven by NumThreads host threads
Spec == Init /\ [][Next]_vars

\* ----------------------------------------------------------- the dialer
\* The core build as constructed by NewCoreController, whose registration
\* of the dialer hook either succeeded or failed.
InitDial ==
  /\ \E ok \in BOOLEAN : dialer = registerDialerController(ok)
  /\ build = "core"
  /\ x = NewCoreController
  /\ v = NewV2RayPoint
  /\ inst = [i \in InstIds |-> Unborn]
  /\ tunFd = 0
  /\ host = <<>>
  /\ pingMap = [k \in Keys |-> Nil]
  /\ pc = [t \in Threads |-> "idle"]
  /\ arg = [t \in Threads |-> 0]
  /\ ret = [t \in Threads |-> "none"]
  /\ mine = [t \in Threads |-> Nil]
  /\ observed = [IsRunning |-> FALSE, engine |-> "none"]

\* the engine, on goroutine t, creates the socket fd of an outbound dial and
\* is about to run the registered controllers on it
Dial_socket(t, fd) ==
  /\ dialer.conn[t].pc = "idle"
  /\ dialer' = [dialer EXCEPT !.conn[t] =
                  [NoConn EXCEPT !.pc = IF dialer.hook THEN "control" ELSE "connect",
                                 !.fd = fd]]
  /\ UNCHANGED <<build, x, v, inst, tunFd, host, pingMap, pc, arg, ret, mine, observed>>

\* the hook: return conn.Control(controller), where controller calls
\* controller.ProtectFd(int(fd)) and drops the bool the host returns.
\* Control on the open socket runs the function and returns nil.
RegisterDialerController(t) ==
  /\ dialer.conn[t].pc = "control"
  /\ \E protected \in BOOLEAN :
       dialer' = [dialer EXCEPT !.conn[t].protect = IF protected THEN "true" ELSE "false",
                                !.conn[t].err = "nil",
                                !.conn[t].pc = "connect"]
  /\ UNCHANGED <<build, x, v, inst, tunFd, host, pingMap, pc, arg, ret, mine, observed>>

\* the engine aborts the dial when a controller returned an error, and
\* otherwise connects, which the network lets succeed or fail
Dial_connect(t) ==
  /\ dialer.conn[t].pc = "connect"
  /\ \E ok \in BOOLEAN :
       dialer' = [dialer EXCEPT !.conn[t].pc =
                    IF dialer.conn[t].err \notin {"none", "nil"} THEN "aborted"
                    ELSE IF ok THEN "connected" ELSE "refused"]
  /\ UNCHANGED <<build, x, v, inst, tunFd, host, pingMap, pc, arg, ret, mine, observed>>

\* the connection is closed or the failure reported; the goroutine is free
Dial_done(t) ==
  /\ dialer.conn[t].pc \in {"connected", "refused", "aborted"}
  /\ dialer' = [dialer EXCEPT !.conn[t] = NoConn]
  /\ UNCHANGED <<build, x, v, inst, tunFd, host, pingMap, pc, arg, ret, mine, observed>>

NextDial ==
  \E t \in Threads :
    \/ \E fd \in Fds : Dial_socket(t, fd)
    \/ RegisterDialerController(t)
    \/ Dial_connect(t)
    \/ Dial_done(t)

\* the dials of the engine through the registered hook
SpecDial == InitDial /\ [][NextDial]_vars

\* ------------------------------------------------------------- fairness
\* the controller alone, without the host's reads of the flag
NextLoop == NextCore \/ NextVpn

\* the Lock calls of thread t
Locks(t) ==
  \/ StartLoop_lock(t)
  \/ StopLoopCore_lock(t)
  \/ RunLoop_lock(t)
  \/ StopLoop_lock(t)

\* the statements thread t executes between Lock and the deferred Unlock
Body(t) ==
  \/ StartLoop(t)
  \/ doStartLoop_open(t)
  \/ doStartLoop_load(t)
  \/ doStartLoop_new(t)
  \/ doStartLoop_run(t)
  \/ doStartLoop_start(t)
  \/ StopLoopCore(t)
  \/ doShutdown(t)
  \/ RunLoop(t)
  \/ pointloop_open(t)
  \/ pointloop_load(t)
  \/ pointloop_new(t)
  \/ pointloop_run(t)
  \/ pointloop_start(t)
  \/ pointloop_hooks(t)
  \/ StopLoop(t)
  \/ shutdownInit(t)
  \/ StopLoop_emit(t)

\* Every engine operation and host callback returns, so a thread inside a
\* call keeps executing (weak fairness of its statements).  sync.Mutex hands
\* the lock to a goroutine that has waited long enough (starvation mode), so
\* a thread blocked in Lock gets the lock if it is released again and again
\* (strong fairness of Lock).  The host is free never to call.
SpecFair ==
  /\ Init
  /\ [][NextLoop]_vars
  /\ \A t \in Threads : WF_vars(Body(t)) /\ SF_vars(Locks(t))

\* the keyed instance table, driven by NumThreads host threads
SpecSimple == InitSimple /\ [][NextSimple]_vars

\* ---------------------------------------------------------------- claims
\* thread t leaves position p in this step
Leaves(t, p) == pc[t] = p /\ pc'[t] # p

LiveInsts == {i \in InstIds : Live(i)}

\* positions between Lock and the deferred Unlock
InSection == {"StartLoop_locked", "doStartLoop_open", "doStartLoop_load", "doStartLoop_new",
              "doStartLoop_run", "doStartLoop_start", "StopLoopCore_locked", "doShutdown",
              "RunLoop_locked", "pointloop_open", "pointloop_load", "pointloop_new",
              "pointloop_run", "pointloop_start", "pointloop_hooks", "StopLoop_locked",
              "shutdownInit", "StopLoop_emit"}

AtLock == {"StartLoop", "StopLoopCore", "RunLoop", "StopLoop"}

StartErrors == {"config error: open", "config error: load", "core init failed: new",
                "startup failed: start", "open", "load", "new", "start"}

\* C1: at most one constructed-but-not-shut-down engine instance exists for
\* the controller at any time, and exactly one exists whenever the running
\* flag is true.
C1_OneLiveEngine ==
  /\ Cardinality(LiveInsts) <= 1
  /\ IsRunning => Cardinality(LiveInsts) = 1

\* C2: when Start returns a failure, the running flag is false and the engine
\* instance constructed during that call has been shut down, the engine
\* reference is cleared and the statistics capability is cleared.
C2_FailedStartReleases ==
  [][\A t \in Threads :
       (pc[t] \in InSection /\ pc'[t] = "idle" /\ ret'[t] \in StartErrors) =>
         /\ ~IsRunning'
         /\ (pc[t] \in {"doStartLoop_start", "pointloop_start"} =>
               /\ inst'[Engine].closes > 0
               /\ Engine' = Nil
               /\ Stats' = Nil)]_vars

\* C3: Start on a controller that is already Running returns success,
\* constructs no engine instance, leaves the running flag, the engine
\* reference and the statistics capability unchanged, and notifies nobody.
C3_StartWhileRunningIsNoOp ==
  [][\A t \in Threads :
       ((Leaves(t, "StartLoop_locked") \/ Leaves(t, "RunLoop_locked")) /\ IsRunning) =>
         /\ pc'[t] = "idle"
         /\ ret'[t] = "nil"
         /\ inst' = inst
         /\ IsRunning' = IsRunning
         /\ Engine' = Engine
         /\ Stats' = Stats
         /\ host' = host]_vars

\* two Starts have returned success, yet one engine was constructed and it runs
C3_Witness ==
  \E t, u \in Threads :
    /\ t # u
    /\ pc[t] = "idle" /\ ret[t] = "nil"
    /\ pc[u] = "idle" /\ ret[u] = "nil"
    /\ NumConstructed = 1
    /\ IsRunning

\* C4: a lock-free read of the running flag never returns Running before the
\* engine's start operation has succeeded (hence never for a Start that
\* ends in failure).
C4_NoEarlyRunning ==
  observed.IsRunning => observed.engine = "started"

\* C5: no two calls are inside the section that reads or writes the running
\* flag, engine reference or statistics capability at the same time, and
\* the call inside it owns the controller's mutex.
C5_MutualExclusion ==
  /\ Cardinality({t \in Threads : pc[t] \in InSection}) <= 1
  /\ \A t \in Threads : pc[t] \in InSection => Mutex = t

\* one call is inside the section while another waits for the lock
C5_Witness ==
  \E t, u \in Threads :
    /\ pc[t] \in InSection \ {"StartLoop_locked", "RunLoop_locked",
                              "StopLoopCore_locked", "StopLoop_locked"}
    /\ pc[u] \in AtLock

\* C6: Stop on a controller that is NotRunning returns without error, shuts
\* no engine down, notifies nobody and leaves the running flag, the engine
\* reference and the statistics capability unchanged.
C6_StopWhileNotRunningIsNoOp ==
  [][\A t \in Threads :
       ((Leaves(t, "StopLoopCore_locked") \/ Leaves(t, "StopLoop_locked")) /\ ~IsRunning) =>
         /\ pc'[t] = "idle"
         /\ ret'[t] = "void"
         /\ inst' = inst
         /\ host' = host
         /\ IsRunning' = IsRunning
         /\ Engine' = Engine
         /\ Stats' = Stats]_vars

\* a Stop has returned on a controller left NotRunning by a failed startup,
\* whose stale engine reference and statistics capability are still in place
C6_Witness ==
  \E t \in Threads :
    /\ pc[t] = "idle" /\ ret[t] = "void"
    /\ Mutex = NoThread
    /\ ~IsRunning
    /\ Engine # Nil
    /\ Stats # Nil
    /\ \A i \in InstIds : inst[i].closes = 0

\* C7: a Stop that finds the controller Running shuts the current engine
\* instance down and leaves the flag false and the engine reference and
\* statistics capability cleared; however many Stops are issued, every
\* instance whose start succeeded is shut down exactly once as soon as it
\* is no longer the running engine, and no instance is shut down twice.
C7_StopShutsDownOnce ==
  /\ [][\A t \in Threads :
          (Leaves(t, "doShutdown") \/ Leaves(t, "shutdownInit")) =>
            /\ Engine # Nil
            /\ inst'[Engine].closes = inst[Engine].closes + 1
            /\ ~IsRunning'
            /\ Engine' = Nil
            /\ Stats' = Nil]_vars
  /\ [](\A i \in InstIds :
          /\ inst[i].closes <= 1
          /\ inst[i].status = "started" =>
               \/ inst[i].closes = 0 /\ Engine = i /\ IsRunning
               \/ inst[i].closes = 1 /\ Engine # i)

\* two Stops have returned and the engine that was started is shut down once
C7_Witness ==
  \E t, u \in Threads :
    /\ t # u
    /\ pc[t] = "idle" /\ ret[t] = "void"
    /\ pc[u] = "idle" /\ ret[u] = "void"
    /\ \E i \in InstIds : inst[i].status = "started" /\ inst[i].closes = 1

\* C8: a Start whose configuration file cannot be opened returns a
\* config-load error, constructs no engine, notifies nobody and leaves the
\* controller NotRunning with no engine reference.
C8_OpenFailureLeavesNothing ==
  [][\A t \in Threads :
       ((Leaves(t, "doStartLoop_open") \/ Leaves(t, "pointloop_open")) /\ pc'[t] = "idle") =>
         /\ ret'[t] \in {"config error: open", "open"}
         /\ inst' = inst
         /\ host' = host
         /\ ~IsRunning'
         /\ Engine' = Nil]_vars

\* the status notifications among the host's calls
IsStatus(e) == e \in {"Running", "Closed"}

Statuses == SelectSeq(host, IsStatus)

Count(e) == Cardinality({k \in 1..Len(host) : host[k] = e})

At(p) == Cardinality({t \in Threads : pc[t] = p})

\* C9: in the vpn build "Running" is notified only by a Start whose engine
\* started, never by a failed Start or a Start on a running controller;
\* "Closed" is notified once for each Stop that shut an engine down; the
\* notifications alternate Running, Closed, Running, ...
C9_StatusAlternates ==
  /\ [](build = "vpn" =>
          /\ \A k \in 1..Len(Statuses) :
               Statuses[k] = IF k % 2 = 1 THEN "Running" ELSE "Closed"
          /\ Count("Running") + At("pointloop_hooks")
               = Cardinality({i \in InstIds : inst[i].status = "started"})
          /\ Count("Closed") + At("StopLoop_emit")
               = Cardinality({i \in InstIds : inst[i].closes > 0}))
  /\ [][\A t \in Threads :
          /\ (pc[t] \in {"RunLoop_locked", "pointloop_open", "pointloop_load",
                         "pointloop_new", "pointloop_run", "pointloop_start"}
                /\ pc'[t] = "idle") => host' = host
          /\ Leaves(t, "StopLoop_locked") /\ ~IsRunning => host' = host]_vars

\* Running, Closed, Running have been notified
C9_Witness ==
  /\ build = "vpn"
  /\ Len(Statuses) >= 3

\* C10: a keyed Start that reaches the table while its key is present returns
\* "point already exist" and leaves the table and every instance as they
\* are; the Stop of a present key removes exactly the mapped instance, and
\* that is the instance it shuts down.
C10_RejectedStartKeepsMapping ==
  [][\A t \in Threads :
       /\ (Leaves(t, "StartSimple_store") /\ pingMap[arg[t]] # Nil) =>
            /\ ret'[t] = "point already exist"
            /\ pingMap' = pingMap
            /\ inst' = inst
       /\ (Leaves(t, "StopSimple") /\ pingMap[arg[t]] # Nil) =>
            /\ mine'[t] = pingMap[arg[t]]
            /\ pingMap' = [pingMap EXCEPT ![arg[t]] = Nil]
            /\ pc'[t] = "StopSimple_close"
       /\ Leaves(t, "StopSimple_close") =>
            inst' = [inst EXCEPT ![mine[t]].closes = @ + 1]]_vars

\* a Start was rejected because its key was present, a Stop has returned, the
\* table is empty again and the one instance that was mapped is shut down
C10_Witness ==
  \E t, u \in Threads :
    /\ t # u
    /\ pc[t] = "idle" /\ ret[t] = "point already exist"
    /\ pc[u] = "idle" /\ ret[u] = "void"
    /\ \A k \in Keys : pingMap[k] = Nil
    /\ Cardinality({i \in InstIds : inst[i].closes = 1}) = 1

\* instances the table maps to
Mapped == {pingMap[k] : k \in Keys} \ {Nil}

\* C11: of the keyed Starts that reach the table with the same key, the one
\* that finds the key absent returns success and maps the key to the instance
\* it built, every one that finds it present returns "point already exist"
\* and changes nothing; no keyed Start or Stop touches the mapping of a key
\* other than its own, and a key never maps to an instance another Start is
\* still holding.
C11_FirstWriterWins ==
  /\ [][\A t \in Threads :
          /\ Leaves(t, "StartSimple_store") =>
               /\ IF pingMap[arg[t]] = Nil
                    THEN ret'[t] = "nil" /\ pingMap'[arg[t]] = mine[t]
                    ELSE ret'[t] = "point already exist" /\ pingMap'[arg[t]] = pingMap[arg[t]]
          /\ pc[t] # pc'[t] /\ pc[t] # "idle" =>
               \A k \in Keys \ {arg[t]} : pingMap'[k] = pingMap[k]]_vars
  /\ [](\A t \in Threads :
          pc[t] \in {"StartSimple_start", "StartSimple_store"} => mine[t] \notin Mapped)

\* two Starts have returned, one with success and one rejected, nothing was
\* removed, and the table holds one of the two instances they built
C11_Witness ==
  \E t, u \in Threads :
    /\ pc[t] = "idle" /\ ret[t] = "nil"
    /\ pc[u] = "idle" /\ ret[u] = "point already exist"
    /\ NumConstructed = 2
    /\ \A i \in InstIds : inst[i].closes = 0
    /\ Cardinality(Mapped) = 1

\* C12: Stop of a key that is not in the table returns without error, shuts
\* no instance down and leaves every mapping unchanged.
C12_StopAbsentKeyIsNoOp ==
  [][\A t \in Threads :
       (Leaves(t, "StopSimple") /\ pingMap[arg[t]] = Nil) =>
         /\ pc'[t] = "idle"
         /\ ret'[t] = "void"
         /\ inst' = inst
         /\ pingMap' = pingMap]_vars

\* a Stop has returned although nothing was ever removed from the table, and
\* another key's mapping is in place
C12_Witness ==
  \E t \in Threads :
    /\ pc[t] = "idle" /\ ret[t] = "void"
    /\ \A i \in InstIds : inst[i].closes = 0
    /\ \A u \in Threads : pc[u] # "StopSimple_close"
    /\ Mapped # {}

\* an instance that was constructed, is not shut down, is not in the table
\* and is no longer referenced by any call
Orphan(i) ==
  /\ Live(i)
  /\ i \notin Mapped
  /\ \A t \in Threads : mine[t] # i

\* C14: the instance built by a keyed Start that is rejected is left as it
\* is, not shut down and not in the table, and from then on nothing shuts it
\* down, whatever Stops follow.
C14_RejectedInstanceLeaks ==
  [][/\ \A t \in Threads :
          (Leaves(t, "StartSimple_store") /\ pingMap[arg[t]] # Nil) =>
            \E i \in InstIds :
              /\ i = mine[t]
              /\ inst'[i] = inst[i]
              /\ inst'[i].closes = 0
              /\ i \notin {pingMap'[k] : k \in Keys}
              /\ Orphan(i)'
     /\ \A i \in InstIds : Orphan(i) => Orphan(i)']_vars

\* a rejected Start left an orphan, and a later Stop emptied the table and
\* shut the mapped instance down, not the orphan
C14_Witness ==
  /\ \E t \in Threads : pc[t] = "idle" /\ ret[t] = "point already exist"
  /\ \E i \in InstIds : Orphan(i)
  /\ \E j \in InstIds : inst[j].closes = 1
  /\ Mapped = {}
  /\ \A t \in Threads : pc[t] = "idle"

\* C15: a keyed Start returns success only if the engine startup succeeded
\* too, and an instance whose startup failed is never inserted into the
\* table.
C15_OnlyStartedInserted ==
  \A k \in Keys : pingMap[k] # Nil => inst[pingMap[k]].status = "started"

\* C20: an instance that is in the table has not been shut down, no instance
\* is shut down twice, and of the Stops racing on a key only one holds the
\* instance it removed.
C20_MappedLiveClosedOnce ==
  /\ \A i \in Mapped : inst[i].closes = 0
  /\ \A i \in InstIds : inst[i].closes <= 1
  /\ \A t, u \in Threads :
       (t # u /\ pc[t] = "StopSimple_close" /\ pc[u] = "StopSimple_close") => mine[t] # mine[u]
  /\ \A t \in Threads : pc[t] = "StopSimple_close" => Live(mine[t]) /\ mine[t] \notin Mapped

\* one Stop has removed the instance of a key and is about to shut it down
\* while another Stop of the same key is under way
C20_Witness ==
  \E t, u \in Threads :
    /\ pc[t] = "StopSimple_close"
    /\ pc[u] = "StopSimple"
    /\ arg[u] = arg[t]

\* C16: StartLoop(tunFd) on a controller that is already Running leaves the
\* process environment entry xray.tun.fd at the value it had.
C16_IgnoredStartKeepsTunFd ==
  [][\A t \in Threads :
       (Leaves(t, "StartLoop_locked") /\ x.IsRunning) => tunFd' = tunFd]_vars

\* C18: in the vpn build Prepare and then Setup are called once by each
\* successful Start, after the engine started and right before "Running",
\* by no failed Start, and every Stop that left the Running state has
\* called the host's Shutdown hook by the time it notifies "Closed".
C18_HooksBracketRunning ==
  build = "vpn" =>
    /\ Count("Prepare") = Count("Running")
    /\ Count("Setup") = Count("Running")
    /\ \A k \in 1..Len(host) :
         host[k] = "Running" => k >= 3 /\ host[k - 2] = "Prepare" /\ host[k - 1] = "Setup"
    /\ Count("Running") + At("pointloop_hooks")
         = Cardinality({i \in InstIds : inst[i].status = "started"})
    /\ Count("Shutdown") >= Count("Closed")

\* C19: whenever the running flag is true the engine reference is an instance
\* that is not shut down, so the Close in shutdownInit never acts on nil and
\* no Stop panics, whatever Starts failed before.
C19_RunningHasEngine ==
  /\ IsRunning => Engine # Nil /\ Live(Engine)
  /\ \A t \in Threads :
       /\ pc[t] # "panic"
       /\ pc[t] \in {"shutdownInit", "doShutdown"} => Engine # Nil

\* a Stop is about to shut the running engine down after an earlier Start
\* had failed at startup
C19_Witness ==
  /\ \E t \in Threads : pc[t] \in {"shutdownInit", "doShutdown"}
  /\ \E i \in InstIds : inst[i].status = "failed"
  /\ IsRunning

\* C17: every Start and every Stop returns, and returns with the mutex
\* released whichever path it took; a Stop that waits for the lock while
\* another call is inside gets the lock afterwards and then tests the running
\* flag that call left.
C17_CallsReturnUnlocked ==
  /\ \A t \in Threads : (pc[t] # "idle") ~> (pc[t] = "idle")
  /\ \A t \in Threads :
       (pc[t] \in {"StopLoopCore", "StopLoop"})
         ~> (pc[t] \in {"StopLoopCore_locked", "StopLoop_locked"} /\ Mutex = t)
  /\ [](\A t \in Threads : Mutex = t <=> pc[t] \in InSection)
  /\ [][\A t \in Threads :
          (pc[t] \in InSection /\ pc'[t] = "idle") => Mutex' = NoThread]_vars

\* a Stop waits for the lock while a Start is about to start its engine
C17_Witness ==
  \E t, u \in Threads :
    /\ pc[t] \in {"doStartLoop_start", "pointloop_start"}
    /\ pc[u] \in {"StopLoopCore", "StopLoop"}

\* C13: when the host's ProtectFd returns false for a socket, the failure is
\* logged, the hook returns no error to the engine and the dial goes on to
\* connect instead of being aborted.
C13_ProtectFailureLoggedNotFatal ==
  \A t \in Threads :
    dialer.conn[t].protect = "false" =>
      /\ "ProtectFd failed" \in dialer.log
      /\ dialer.conn[t].err = "nil"
      /\ dialer.conn[t].pc # "aborted"
====
